---------------------------- MODULE Spec2Model ----------------------------
(***************************************************************************)
(* Planar-mirror sample (samples/rendertarget.cpp): the setup, animate,    *)
(* preRender and cleanup callbacks handed to FilamentApp, the mirror       *)
(* camera computation of the animate callback, and the frame loop that     *)
(* drives them.                                                            *)
(*                                                                         *)
(* Numbers.  The program computes in float.  The model computes exactly in *)
(* the field Q(sqrt 5), which holds every value the program's plane        *)
(* (normal = normalize(1,0,2)) produces, extended with the IEEE values     *)
(* NaN, +Inf and -Inf that a float division by zero yields.  Rounding is   *)
(* not modelled: equalities below are equalities of real numbers.          *)
(***************************************************************************)
EXTENDS Integers, Sequences, FiniteSets, TLC

----------------------------------------------------------------------------
(* float: (a + b*sqrt(5)) / d in lowest terms, or an IEEE special value.   *)

Abs(x) == IF x < 0 THEN -x ELSE x

RECURSIVE Gcd(_, _)
Gcd(x, y) == IF y = 0 THEN x ELSE Gcd(y, x % y)

Num(a, b, d) ==
    LET g == Gcd(Gcd(Abs(a), Abs(b)), Abs(d))
        s == IF d < 0 THEN -1 ELSE 1
    IN  [k |-> "fin", a |-> (s * a) \div g, b |-> (s * b) \div g, d |-> Abs(d) \div g]

F(n) == Num(n, 0, 1)

Frac(n, d) == Num(n, 0, d)

NaN == [k |-> "nan", a |-> 0, b |-> 0, d |-> 1]

PInf == [k |-> "pinf", a |-> 0, b |-> 0, d |-> 1]

NInf == [k |-> "ninf", a |-> 0, b |-> 0, d |-> 1]

isfinite(x) == x.k = "fin"

\* sign of a float: -1, 0 or 1 (0 for NaN)
Sgn(x) ==
    CASE x.k = "pinf" -> 1
      [] x.k = "ninf" -> -1
      [] x.k = "nan" -> 0
      [] OTHER ->
           IF x.a = 0 /\ x.b = 0 THEN 0
           ELSE IF x.a >= 0 /\ x.b >= 0 THEN 1
           ELSE IF x.a <= 0 /\ x.b <= 0 THEN -1
           ELSE IF x.a > 0 THEN (IF x.a * x.a > 5 * x.b * x.b THEN 1 ELSE -1)
           ELSE (IF 5 * x.b * x.b > x.a * x.a THEN 1 ELSE -1)

InfOfSign(s) == IF s > 0 THEN PInf ELSE IF s < 0 THEN NInf ELSE NaN

fneg(x) ==
    CASE x.k = "fin" -> Num(-x.a, -x.b, x.d)
      [] x.k = "pinf" -> NInf
      [] x.k = "ninf" -> PInf
      [] OTHER -> NaN

fadd(x, y) ==
    IF x.k = "nan" \/ y.k = "nan" THEN NaN
    ELSE IF x.k = "fin" /\ y.k = "fin"
         THEN Num(x.a * y.d + y.a * x.d, x.b * y.d + y.b * x.d, x.d * y.d)
    ELSE IF x.k = "fin" THEN y
    ELSE IF y.k = "fin" THEN x
    ELSE IF x.k = y.k THEN x ELSE NaN

fsub(x, y) == fadd(x, fneg(y))

fmul(x, y) ==
    IF x.k = "nan" \/ y.k = "nan" THEN NaN
    ELSE IF x.k = "fin" /\ y.k = "fin"
         THEN Num(x.a * y.a + 5 * x.b * y.b, x.a * y.b + x.b * y.a, x.d * y.d)
    ELSE InfOfSign(Sgn(x) * Sgn(y))

\* IEEE division: x/0 is +-Inf for x # 0 and NaN for x = 0.  A sum that
\* cancels exactly is +0 in round-to-nearest, so the zero is taken positive.
fdiv(x, y) ==
    IF x.k = "nan" \/ y.k = "nan" THEN NaN
    ELSE IF x.k # "fin" /\ y.k # "fin" THEN NaN
    ELSE IF x.k # "fin" THEN InfOfSign(Sgn(x) * (IF Sgn(y) < 0 THEN -1 ELSE 1))
    ELSE IF y.k # "fin" THEN F(0)
    ELSE IF Sgn(y) = 0 THEN InfOfSign(Sgn(x))
    ELSE Num((x.a * y.a - 5 * x.b * y.b) * y.d,
             (x.b * y.a - x.a * y.b) * y.d,
             x.d * (y.a * y.a - 5 * y.b * y.b))

IsSquare(n) == \E p \in 0..n : p * p = n

ISqrt(n) == CHOOSE p \in 0..n : p * p = n

\* Exact square root of a non-negative rational that has one in Q(sqrt 5):
\* p/r, or (p/r)*sqrt(5) = sqrt(5*x)*sqrt(5)/5.
fsqrt(x) ==
    CASE x.k = "nan" \/ x.k = "ninf" -> NaN
      [] x.k = "pinf" -> PInf
      [] OTHER ->
           IF Sgn(x) < 0 THEN NaN
           ELSE LET z == Num(5 * x.a, 0, x.d)
                IN  CHOOSE r \in
                        (IF x.b = 0 /\ IsSquare(x.a) /\ IsSquare(x.d)
                         THEN {Num(ISqrt(x.a), 0, ISqrt(x.d))} ELSE {})
                        \cup
                        (IF x.b = 0 /\ IsSquare(z.a) /\ IsSquare(z.d)
                         THEN {Num(0, ISqrt(z.a), 5 * ISqrt(z.d))} ELSE {}) :
                        fmul(r, r) = x

----------------------------------------------------------------------------
(* float3 and float2                                                       *)

float3(x, y, z) == <<F(x), F(y), F(z)>>

float2(x, y) == <<F(x), F(y)>>

vadd(p, q) == <<fadd(p[1], q[1]), fadd(p[2], q[2]), fadd(p[3], q[3])>>

vsub(p, q) == <<fsub(p[1], q[1]), fsub(p[2], q[2]), fsub(p[3], q[3])>>

vscale(s, p) == <<fmul(s, p[1]), fmul(s, p[2]), fmul(s, p[3])>>

dot(p, q) == fadd(fadd(fmul(p[1], q[1]), fmul(p[2], q[2])), fmul(p[3], q[3]))

cross(p, q) ==
    <<fsub(fmul(p[2], q[3]), fmul(p[3], q[2])),
      fsub(fmul(p[3], q[1]), fmul(p[1], q[3])),
      fsub(fmul(p[1], q[2]), fmul(p[2], q[1]))>>

length(p) == fsqrt(dot(p, p))

normalize(p) == vscale(fdiv(F(1), length(p)), p)

distance(p, q) == length(vsub(q, p))

finite3(p) == isfinite(p[1]) /\ isfinite(p[2]) /\ isfinite(p[3])

----------------------------------------------------------------------------
(* Bounds and input sets                                                   *)

\* frames the loop runs before it only waits to be closed
MaxFrames == 2

\* builders that may return no object in one run of setup
MaxFailures == 1

kTextureWidth == 1024

kTextureHeight == 1024

kViewportWidth == 1024

kViewportHeight == 1024

\* Poses the primary camera can be moved to: eye, unit forward, unit up.
MainPoses ==
    { [eye |-> float3(0, 0, 0), forward |-> float3(0, 0, -1), up |-> float3(0, 1, 0)],
      [eye |-> float3(0, 0, 0), forward |-> float3(0, 0, 1), up |-> float3(0, 1, 0)],
      [eye |-> float3(0, 0, 0), forward |-> <<Num(0, -2, 5), F(0), Num(0, 1, 5)>>,
       up |-> float3(0, 1, 0)],
      [eye |-> float3(-2, 0, -5), forward |-> float3(0, -1, 0), up |-> float3(0, 0, -1)],
      [eye |-> float3(-2, 0, -5), forward |-> float3(1, 0, 0), up |-> float3(0, 1, 0)],
      [eye |-> float3(-4, 0, -9), forward |-> float3(1, 0, 0), up |-> float3(0, 1, 0)],
      [eye |-> float3(0, 0, 0), forward |-> <<Num(0, -1, 5), F(0), Num(0, -2, 5)>>,
       up |-> float3(0, 1, 0)],
      [eye |-> float3(1, 2, 0), forward |-> <<Frac(3, 5), F(0), Frac(-4, 5)>>,
       up |-> float3(0, 1, 0)] }

\* Focal lengths (mm) the application's lens setting can take.
FocalLengths == {F(28), F(50)}

\* Inputs of the reflect function: vectors v and unit vectors n.
ReflectVectors ==
    { float3(x, y, z) : x \in {-1, 0, 2}, y \in {-1, 0, 1}, z \in {0, 1, 3} }

UnitVectors ==
    { float3(1, 0, 0), float3(0, -1, 0), float3(0, 0, 1),
      <<Frac(3, 5), Frac(4, 5), F(0)>>,
      <<Frac(2, 3), Frac(-1, 3), Frac(2, 3)>>,
      <<Num(0, 1, 5), F(0), Num(0, 2, 5)>> }

----------------------------------------------------------------------------
(* The animate callback's pure functions                                   *)

\* mutation: the factor 2 dropped (projection onto the plane, not reflection)
reflectNoDouble(I, N) == vsub(I, vscale(dot(N, I), N))

\* mutation: the scaled vector is I instead of N
reflectAlongI(I, N) == vsub(I, vscale(fmul(F(2), dot(N, I)), I))

reflect(I, N) == vsub(I, vscale(fmul(F(2), dot(N, I)), N))

intersectPlane(planePt, planeNormal, rayOrigin, rayDir) ==
    LET t == fdiv(dot(vsub(planePt, rayOrigin), planeNormal), dot(rayDir, planeNormal))
    IN  vadd(rayOrigin, vscale(t, rayDir))

\* Arguments the callback passes to offscreenCamera->lookAt.
reflectedLookAt(camera, center, normal) ==
    LET eyePos == camera.eye
        upVec == camera.up
        gazeVec == camera.forward
        quadPoint == intersectPlane(center, normal, eyePos, gazeVec)
        reflectedGazeVec == reflect(gazeVec, normal)
        reflectedEyePos ==
            vsub(quadPoint, vscale(distance(quadPoint, eyePos), reflectedGazeVec))
        reflectedUpVec == reflect(upVec, normal)
    IN  [eye |-> reflectedEyePos,
         center |-> vadd(reflectedEyePos, reflectedGazeVec),
         up |-> reflectedUpVec]

\* mutation: the lens is set once to the default focal length and not followed
lensProjectionStale(focalLength) ==
    [focalLength |-> F(28), aspect |-> F(1), near |-> Frac(1, 10), far |-> F(100)]

\* Arguments the callback passes to offscreenCamera->setLensProjection.
lensProjection(focalLength) ==
    [focalLength |-> focalLength, aspect |-> F(1), near |-> Frac(1, 10), far |-> F(100)]

----------------------------------------------------------------------------
(* Quad geometry built by setup                                            *)

kQuadIndices == <<0, 1, 2, 3, 2, 1>>

kQuadUVs == <<float2(0, 0), float2(1, 0), float2(0, 1), float2(1, 1)>>

setupCenter == float3(-2, 0, -5)

setupNormal == normalize(float3(1, 0, 2))

setupExtents ==
    LET u == normalize(cross(setupNormal, float3(0, 1, 0)))
        v == cross(setupNormal, u)
    IN  <<vscale(Frac(3, 2), u), vscale(Frac(3, 2), v)>>

\* mutation: the last corner repeats the second one (c + u - v)
quadPositionsRepeated(c, u, v) ==
    <<vsub(vsub(c, u), v), vsub(vadd(c, u), v), vadd(vsub(c, u), v), vsub(vadd(c, u), v)>>

quadPositions(c, u, v) ==
    <<vsub(vsub(c, u), v), vsub(vadd(c, u), v), vadd(vsub(c, u), v), vadd(vadd(c, u), v)>>

----------------------------------------------------------------------------
(* State                                                                   *)

VARIABLES
    pc,                 \* where FilamentApp::run is: start, loop, animated,
                        \* preRendered, offscreenRendered, done, crashed
    frame,              \* frames started so far
    app,                \* the App struct's handles: field -> object or "nullptr"
    quadCenter,         \* App::quadCenter
    quadNormal,         \* App::quadNormal
    quadExtents,        \* App::quadExtents[2]
    kQuadVertices,      \* the static vertex array: position and uv of 4 vertices
    setupLog,           \* the statements of setup that ran, in order
    createLog,          \* the objects the engine created, in order of creation
    destroyLog,         \* the objects engine->destroy was given, in order
    live,               \* the objects that exist in the engine
    offscreenViews,     \* views registered with FilamentApp::addOffscreenView
    viewState,          \* render target, viewport and camera of the offscreen view
    albedo,             \* the texture bound to the quad material's "albedo"
    offscreenCam,       \* pose and projection of the offscreen camera
    mainCamera,         \* pose of the primary camera
    cameraFocalLength,  \* FilamentApp's focal length setting
    meshNow,            \* the time the mesh transform was last computed for
    clearOptions,       \* the renderer's clear options
    frameLog,           \* what the current frame has done so far, in order
    rI, rN, rR, rCount  \* reflect applied rCount times to rI about rN gives rR

vars ==
    <<pc, frame, app, quadCenter, quadNormal, quadExtents, kQuadVertices, setupLog,
      createLog, destroyLog, live, offscreenViews, viewState, albedo, offscreenCam,
      mainCamera, cameraFocalLength, meshNow, clearOptions, frameLog, rI, rN, rR, rCount>>

appVars ==
    <<pc, frame, app, quadCenter, quadNormal, quadExtents, kQuadVertices, setupLog,
      createLog, destroyLog, live, offscreenViews, viewState, albedo, offscreenCam,
      mainCamera, cameraFocalLength, meshNow, clearOptions, frameLog>>

reflectVars == <<rI, rN, rR, rCount>>

Range(s) == { s[i] : i \in DOMAIN s }

----------------------------------------------------------------------------
(* setup                                                                   *)

\* mutation: the offscreen view is never registered with the application
SetupStepsUnregistered ==
    << "scene.setSkybox", "ColorGrading.build", "view.setColorGrading",
       "view.setVignetteOptions", "em.create.camera", "createCamera", "createView",
       "offscreenView.setScene", "offscreenView.setColorGrading", "Texture.build",
       "RenderTarget.build", "offscreenView.setRenderTarget",
       "offscreenView.setViewport", "offscreenView.setCamera",
       "kQuadVertices", "VertexBuffer.build", "quadVb.setBufferAt",
       "IndexBuffer.build", "quadIb.setBuffer", "Material.build.quad",
       "quadMaterial.createInstance", "quadMatInstance.setParameter",
       "em.create.quad", "RenderableManager.build", "scene.addEntity.quad",
       "Material.build.mesh", "meshMaterial.createInstance",
       "meshMatInstance.setParameter", "loadMeshFromBuffer", "mesh.transform",
       "scene.addEntity.mesh", "em.create.light", "LightManager.build",
       "scene.addEntity.light" >>

\* The statements of setup, in source order.
SetupSteps ==
    << "scene.setSkybox", "ColorGrading.build", "view.setColorGrading",
       "view.setVignetteOptions", "em.create.camera", "createCamera", "createView",
       "offscreenView.setScene", "offscreenView.setColorGrading", "Texture.build",
       "RenderTarget.build", "offscreenView.setRenderTarget",
       "offscreenView.setViewport", "offscreenView.setCamera", "addOffscreenView",
       "kQuadVertices", "VertexBuffer.build", "quadVb.setBufferAt",
       "IndexBuffer.build", "quadIb.setBuffer", "Material.build.quad",
       "quadMaterial.createInstance", "quadMatInstance.setParameter",
       "em.create.quad", "RenderableManager.build", "scene.addEntity.quad",
       "Material.build.mesh", "meshMaterial.createInstance",
       "meshMatInstance.setParameter", "loadMeshFromBuffer", "mesh.transform",
       "scene.addEntity.mesh", "em.create.light", "LightManager.build",
       "scene.addEntity.light" >>

\* The objects a statement of setup creates, in order.
Creates(step) ==
    CASE step = "ColorGrading.build" -> <<"colorGrading">>
      [] step = "em.create.camera" -> <<"cameraEntity">>
      [] step = "createCamera" -> <<"offscreenCamera">>
      [] step = "createView" -> <<"offscreenView">>
      [] step = "Texture.build" -> <<"offscreenTexture">>
      [] step = "RenderTarget.build" -> <<"offscreenRenderTarget">>
      [] step = "VertexBuffer.build" -> <<"quadVb">>
      [] step = "IndexBuffer.build" -> <<"quadIb">>
      [] step = "Material.build.quad" -> <<"quadMaterial">>
      [] step = "quadMaterial.createInstance" -> <<"quadMatInstance">>
      [] step = "em.create.quad" -> <<"quadEntity">>
      [] step = "Material.build.mesh" -> <<"meshMaterial">>
      [] step = "meshMaterial.createInstance" -> <<"meshMatInstance">>
      [] step = "loadMeshFromBuffer" ->
           <<"mesh.vertexBuffer", "mesh.indexBuffer", "mesh.renderable">>
      [] step = "em.create.light" -> <<"lightEntity">>
      [] OTHER -> <<>>

\* The App handle a statement calls a member function through.
Derefs(step) ==
    CASE step = "quadVb.setBufferAt" -> {"quadVb"}
      [] step = "quadIb.setBuffer" -> {"quadIb"}
      [] step = "quadMaterial.createInstance" -> {"quadMaterial"}
      [] step = "quadMatInstance.setParameter" -> {"quadMatInstance"}
      [] OTHER -> {}

\* The later statements of setup that are handed an object.
UsedBy(object) ==
    CASE object = "offscreenTexture" -> {"RenderTarget.build", "quadMatInstance.setParameter"}
      [] object = "offscreenRenderTarget" -> {"offscreenView.setRenderTarget"}
      [] object = "quadVb" -> {"quadVb.setBufferAt", "RenderableManager.build"}
      [] object = "quadIb" -> {"quadIb.setBuffer", "RenderableManager.build"}
      [] object = "quadMaterial" -> {"quadMaterial.createInstance"}
      [] OTHER -> {}

\* The builders of setup whose result the program needs to run.
Fallible == {"offscreenTexture", "offscreenRenderTarget", "quadVb", "quadIb", "quadMaterial"}

\* The fields of App that hold engine objects.
AppHandles ==
    { "lightEntity", "meshMaterial", "meshMatInstance", "mesh.renderable",
      "mesh.vertexBuffer", "mesh.indexBuffer", "offscreenTexture",
      "offscreenRenderTarget", "offscreenView", "offscreenCamera", "quadEntity",
      "quadVb", "quadIb", "quadMaterial", "quadMatInstance" }

\* Handles that are null once the builders in fails returned no object: an
\* instance of a material that does not exist does not exist either.
NullHandles(fails) ==
    fails \cup (IF "quadMaterial" \in fails THEN {"quadMatInstance"} ELSE {})

\* The statements that run: all of them, or, when a member call through a null
\* handle traps, those before the first such call.
Executed(fails, trap) ==
    LET ub == { i \in DOMAIN SetupSteps : Derefs(SetupSteps[i]) \cap NullHandles(fails) # {} }
        first == CHOOSE i \in ub : \A j \in ub : i <= j
    IN  IF trap /\ ub # {} THEN SubSeq(SetupSteps, 1, first - 1) ELSE SetupSteps

RECURSIVE CreatedIn(_, _)
CreatedIn(steps, nulls) ==
    IF steps = <<>> THEN <<>>
    ELSE SelectSeq(Creates(Head(steps)), LAMBDA r : r \notin nulls)
            \o CreatedIn(Tail(steps), nulls)

defaultVertices ==
    [i \in 1..4 |-> [position |-> float3(0, 0, 0), uv |-> kQuadUVs[i]]]

setup ==
    /\ pc = "start"
    /\ \E fails \in SUBSET Fallible, trap \in BOOLEAN :
         /\ Cardinality(fails) <= MaxFailures
         /\ trap => fails \cap {"quadVb", "quadIb", "quadMaterial"} # {}
         /\ LET nulls == NullHandles(fails)
                ran == Executed(fails, trap)
                made == CreatedIn(ran, nulls)
                did(step) == step \in Range(ran)
                handle(f) == IF f \in Range(made) THEN f ELSE "nullptr"
                pos == quadPositions(setupCenter, setupExtents[1], setupExtents[2])
            IN  /\ setupLog' = ran
                /\ createLog' = made
                /\ live' = Range(made)
                /\ app' = [f \in AppHandles |-> handle(f)]
                /\ viewState' =
                     [renderTarget |-> IF did("offscreenView.setRenderTarget")
                                       THEN handle("offscreenRenderTarget") ELSE "nullptr",
                      viewport |-> IF did("offscreenView.setViewport")
                                   THEN <<0, 0, kViewportWidth, kViewportHeight>>
                                   ELSE viewState.viewport,
                      camera |-> IF did("offscreenView.setCamera")
                                 THEN handle("offscreenCamera") ELSE "nullptr"]
                /\ offscreenViews' =
                     IF did("addOffscreenView") THEN {handle("offscreenView")} ELSE {}
                /\ quadCenter' = IF did("kQuadVertices") THEN setupCenter ELSE quadCenter
                /\ quadNormal' = IF did("kQuadVertices") THEN setupNormal ELSE quadNormal
                /\ quadExtents' = IF did("kQuadVertices") THEN setupExtents ELSE quadExtents
                /\ kQuadVertices' =
                     IF did("kQuadVertices")
                     THEN [i \in 1..4 |-> [position |-> pos[i], uv |-> kQuadUVs[i]]]
                     ELSE kQuadVertices
                /\ albedo' =
                     IF did("quadMatInstance.setParameter") /\ "quadMatInstance" \notin nulls
                     THEN handle("offscreenTexture") ELSE albedo
                /\ pc' = IF Len(ran) = Len(SetupSteps) THEN "loop" ELSE "crashed"
    /\ UNCHANGED <<frame, destroyLog, offscreenCam, mainCamera, cameraFocalLength,
                   meshNow, clearOptions, frameLog>>
    /\ UNCHANGED reflectVars

----------------------------------------------------------------------------
(* cleanup                                                                 *)

\* The App fields cleanup hands to engine->destroy, in source order.
CleanupOrder ==
    << "lightEntity", "quadEntity", "meshMatInstance", "meshMaterial",
       "mesh.renderable", "mesh.vertexBuffer", "mesh.indexBuffer", "offscreenTexture",
       "offscreenRenderTarget", "offscreenView", "quadVb", "quadIb",
       "quadMatInstance", "quadMaterial" >>

\* engine->destroy of a null handle does nothing.
cleanup ==
    /\ pc = "loop"
    /\ LET given == SelectSeq(CleanupOrder, LAMBDA f : app[f] # "nullptr")
       IN  /\ destroyLog' = destroyLog \o [i \in DOMAIN given |-> app[given[i]]]
           /\ live' = live \ { app[given[i]] : i \in DOMAIN given }
    /\ pc' = "done"
    /\ UNCHANGED <<frame, app, quadCenter, quadNormal, quadExtents, kQuadVertices,
                   setupLog, createLog, offscreenViews, viewState, albedo, offscreenCam,
                   mainCamera, cameraFocalLength, meshNow, clearOptions, frameLog>>
    /\ UNCHANGED reflectVars

----------------------------------------------------------------------------
(* The frame loop: animate, preRender, the offscreen views, the main view  *)

animate ==
    /\ pc = "loop"
    /\ frame < MaxFrames
    /\ LET pose == reflectedLookAt(mainCamera, quadCenter, quadNormal)
           lens == lensProjection(cameraFocalLength)
       IN  offscreenCam' =
               [eye |-> pose.eye, center |-> pose.center, up |-> pose.up,
                focalLength |-> lens.focalLength, aspect |-> lens.aspect,
                near |-> lens.near, far |-> lens.far]
    /\ meshNow' = frame + 1
    /\ frame' = frame + 1
    /\ frameLog' = <<"animate">>
    /\ pc' = "animated"
    /\ UNCHANGED <<app, quadCenter, quadNormal, quadExtents, kQuadVertices, setupLog,
                   createLog, destroyLog, live, offscreenViews, viewState, albedo,
                   mainCamera, cameraFocalLength, clearOptions>>
    /\ UNCHANGED reflectVars

preRender ==
    /\ pc = "animated"
    /\ clearOptions' = [clearColor |-> <<Frac(1, 10), Frac(2, 10), Frac(4, 10), F(1)>>,
                        clear |-> TRUE]
    /\ frameLog' = Append(frameLog, "preRender")
    /\ pc' = "preRendered"
    /\ UNCHANGED <<frame, app, quadCenter, quadNormal, quadExtents, kQuadVertices,
                   setupLog, createLog, destroyLog, live, offscreenViews, viewState,
                   albedo, offscreenCam, mainCamera, cameraFocalLength, meshNow>>
    /\ UNCHANGED reflectVars

\* FilamentApp::run renders every registered offscreen view ...
renderOffscreenViews ==
    /\ pc = "preRendered"
    /\ frameLog' = frameLog \o [i \in 1..Cardinality(offscreenViews) |-> "offscreen"]
    /\ pc' = "offscreenRendered"
    /\ UNCHANGED <<frame, app, quadCenter, quadNormal, quadExtents, kQuadVertices,
                   setupLog, createLog, destroyLog, live, offscreenViews, viewState,
                   albedo, offscreenCam, mainCamera, cameraFocalLength, meshNow,
                   clearOptions>>
    /\ UNCHANGED reflectVars

\* ... and then the main view, which ends the frame.
renderMainView ==
    /\ pc = "offscreenRendered"
    /\ frameLog' = Append(frameLog, "primary")
    /\ pc' = "loop"
    /\ UNCHANGED <<frame, app, quadCenter, quadNormal, quadExtents, kQuadVertices,
                   setupLog, createLog, destroyLog, live, offscreenViews, viewState,
                   albedo, offscreenCam, mainCamera, cameraFocalLength, meshNow,
                   clearOptions>>
    /\ UNCHANGED reflectVars

\* Between frames the user moves the primary camera ...
moveMainCamera ==
    /\ pc = "loop"
    /\ frame < MaxFrames
    /\ \E pose \in MainPoses \ {mainCamera} : mainCamera' = pose
    /\ UNCHANGED <<pc, frame, app, quadCenter, quadNormal, quadExtents, kQuadVertices,
                   setupLog, createLog, destroyLog, live, offscreenViews, viewState,
                   albedo, offscreenCam, cameraFocalLength, meshNow, clearOptions,
                   frameLog>>
    /\ UNCHANGED reflectVars

\* ... or changes the lens.
setCameraFocalLength ==
    /\ pc = "loop"
    /\ frame < MaxFrames
    /\ \E f \in FocalLengths \ {cameraFocalLength} : cameraFocalLength' = f
    /\ UNCHANGED <<pc, frame, app, quadCenter, quadNormal, quadExtents, kQuadVertices,
                   setupLog, createLog, destroyLog, live, offscreenViews, viewState,
                   albedo, offscreenCam, mainCamera, meshNow, clearOptions, frameLog>>
    /\ UNCHANGED reflectVars

----------------------------------------------------------------------------
(* The program                                                             *)

defaultCamera ==
    [eye |-> float3(0, 0, 0), center |-> float3(0, 0, -1), up |-> float3(0, 1, 0),
     focalLength |-> F(0), aspect |-> F(0), near |-> F(0), far |-> F(0)]

InitApp ==
    /\ pc = "start"
    /\ frame = 0
    /\ app = [f \in AppHandles |-> "nullptr"]
    /\ quadCenter = float3(0, 0, 0)
    /\ quadNormal = float3(0, 0, 0)
    /\ quadExtents = <<float3(0, 0, 0), float3(0, 0, 0)>>
    /\ kQuadVertices = defaultVertices
    /\ setupLog = <<>>
    /\ createLog = <<>>
    /\ destroyLog = <<>>
    /\ live = {}
    /\ offscreenViews = {}
    /\ viewState = [renderTarget |-> "nullptr", viewport |-> <<0, 0, 0, 0>>,
                    camera |-> "nullptr"]
    /\ albedo = "nullptr"
    /\ offscreenCam = defaultCamera
    /\ mainCamera = [eye |-> float3(0, 0, 0), forward |-> float3(0, 0, -1),
                     up |-> float3(0, 1, 0)]
    /\ cameraFocalLength = F(28)
    /\ meshNow = 0
    /\ clearOptions = [clearColor |-> <<F(0), F(0), F(0), F(0)>>, clear |-> FALSE]
    /\ frameLog = <<>>

Init ==
    /\ InitApp
    /\ rI = float3(0, 0, 0)
    /\ rN = float3(0, 0, 1)
    /\ rR = float3(0, 0, 0)
    /\ rCount = 0

Next ==
    \/ setup
    \/ animate
    \/ preRender
    \/ renderOffscreenViews
    \/ renderMainView
    \/ moveMainCamera
    \/ setCameraFocalLength
    \/ cleanup

Spec == Init /\ [][Next]_vars

----------------------------------------------------------------------------
(* reflect as a function of its own: applied once, then again              *)

applyReflect ==
    /\ rCount < 2
    /\ rR' = reflect(rR, rN)
    /\ rCount' = rCount + 1
    /\ UNCHANGED <<rI, rN>>
    /\ UNCHANGED appVars

InitReflect ==
    /\ InitApp
    /\ rI \in ReflectVectors
    /\ rN \in UnitVectors
    /\ rR = rI
    /\ rCount = 0

NextReflect == applyReflect

SpecReflect == InitReflect /\ [][NextReflect]_vars

----------------------------------------------------------------------------
(* Properties                                                              *)

\* C1: in a frame whose gaze is parallel to the mirror plane
\* (dot(forward, normal) = 0) the animate callback leaves the offscreen camera's
\* pose as it was, and every value of the pose stays finite.
C1_DegenerateGazeHeld ==
    [][(animate /\ dot(mainCamera.forward, quadNormal) = F(0))
         => /\ offscreenCam'.eye = offscreenCam.eye
            /\ offscreenCam'.center = offscreenCam.center
            /\ offscreenCam'.up = offscreenCam.up
            /\ finite3(offscreenCam'.eye)
            /\ finite3(offscreenCam'.center)]_vars

\* C2: within a frame the primary pass is submitted at most once and only
\* after the one offscreen submission of that frame, which itself comes after
\* the frame's update of the reflected camera.
C2_OffscreenBeforePrimary ==
    /\ Cardinality({ i \in DOMAIN frameLog : frameLog[i] = "primary" }) <= 1
    /\ Cardinality({ i \in DOMAIN frameLog : frameLog[i] = "offscreen" }) <= 1
    /\ \A i \in DOMAIN frameLog :
         frameLog[i] = "primary" =>
            \E j \in 1..(i - 1) :
               /\ frameLog[j] = "offscreen"
               /\ \E k \in 1..(j - 1) : frameLog[k] = "animate"

\* C2 witness: a second frame has submitted both passes, in that order.
C2_Witness ==
    /\ frame = 2
    /\ pc = "loop"
    /\ frameLog = <<"animate", "preRender", "offscreen", "primary">>

\* C3: after the update of a frame whose gaze is not parallel to the plane, the
\* offscreen camera is the mirror image of the primary camera: its eye is
\* eye - 2*dot(eye - center, normal)*normal, its forward and up are the
\* reflections of the primary forward and up.
C3_OpticalReflection ==
    (/\ pc \in {"animated", "preRendered", "offscreenRendered"}
     /\ dot(mainCamera.forward, quadNormal) # F(0))
    => /\ offscreenCam.eye =
            vsub(mainCamera.eye,
                 vscale(fmul(F(2), dot(vsub(mainCamera.eye, quadCenter), quadNormal)),
                        quadNormal))
       /\ vsub(offscreenCam.center, offscreenCam.eye) =
            vsub(mainCamera.forward,
                 vscale(fmul(F(2), dot(quadNormal, mainCamera.forward)), quadNormal))
       /\ offscreenCam.up =
            vsub(mainCamera.up,
                 vscale(fmul(F(2), dot(quadNormal, mainCamera.up)), quadNormal))

\* C4: cleanup destroys in reverse order of creation: of two objects it
\* destroys, the one created later is destroyed first.
C4_ReverseOrderTeardown ==
    pc = "done" =>
       \A i, j \in DOMAIN createLog :
          (/\ i < j
           /\ createLog[i] \in Range(destroyLog)
           /\ createLog[j] \in Range(destroyLog))
          => \E m, n \in DOMAIN destroyLog :
                /\ destroyLog[m] = createLog[j]
                /\ destroyLog[n] = createLog[i]
                /\ m < n

\* C5: after cleanup every object setup created has been destroyed exactly
\* once, nothing else was destroyed, and no object is left alive.
C5_SetupTeardownBalance ==
    pc = "done" =>
       /\ live = {}
       /\ Range(destroyLog) \subseteq Range(createLog)
       /\ \A r \in Range(createLog) :
            Cardinality({ i \in DOMAIN destroyLog : destroyLog[i] = r }) = 1

\* C6: when a builder of setup returned no object, no later statement of setup
\* that is handed that object has run, and the frame loop is not entered.
C6_AllocationFailureAborts ==
    \A r \in Fallible :
       (pc # "start" /\ app[r] = "nullptr")
       => /\ UsedBy(r) \cap Range(setupLog) = {}
          /\ pc = "crashed"

\* C7: after the update of a frame whose gaze is not parallel to the plane, the
\* reflected eye is as far from the ray-plane intersection P as the primary
\* eye is (distances are not negative, so their squares are compared).
C7_DistancePreserved ==
    (/\ pc \in {"animated", "preRendered", "offscreenRendered"}
     /\ dot(mainCamera.forward, quadNormal) # F(0))
    => LET P == intersectPlane(quadCenter, quadNormal, mainCamera.eye, mainCamera.forward)
           toReflected == vsub(offscreenCam.eye, P)
           toEye == vsub(mainCamera.eye, P)
       IN  dot(toReflected, toReflected) = dot(toEye, toEye)

\* C7 witness: a frame has updated the camera from an eye that is off the
\* plane, with the gaze pointing away from the plane.
C7_Witness ==
    /\ pc = "animated"
    /\ mainCamera.eye = float3(0, 0, 0)
    /\ mainCamera.forward = float3(0, 0, 1)
    /\ distance(intersectPlane(quadCenter, quadNormal, mainCamera.eye, mainCamera.forward),
                offscreenCam.eye) = F(6)

\* C8: reflecting twice about the same unit vector gives the vector back.
C8_ReflectInvolution == rCount = 2 => rR = rI

\* C8 witness: a vector that its reflection moves has been reflected twice,
\* about the normal of the program's plane.
C8_Witness ==
    /\ rCount = 2
    /\ rN = <<Num(0, 1, 5), F(0), Num(0, 2, 5)>>
    /\ reflect(rI, rN) # rI
    /\ rR = rI

\* C9: once setup has run, and through every frame after it, the four vertices
\* are center -U-V, +U-V, -U+V, +U+V with UVs (0,0), (1,0), (0,1), (1,1); U, V
\* and the normal are mutually orthogonal; the indices make two triangles that
\* use all four vertices and share the edge 1-2.
C9_QuadConstruction ==
    pc # "start" =>
       LET U == quadExtents[1]
           V == quadExtents[2]
           T1 == { kQuadIndices[i] : i \in 1..3 }
           T2 == { kQuadIndices[i] : i \in 4..6 }
       IN  /\ kQuadVertices[1].position = vsub(vsub(quadCenter, U), V)
           /\ kQuadVertices[2].position = vsub(vadd(quadCenter, U), V)
           /\ kQuadVertices[3].position = vadd(vsub(quadCenter, U), V)
           /\ kQuadVertices[4].position = vadd(vadd(quadCenter, U), V)
           /\ kQuadVertices[1].position = <<Num(-10, 3, 5), Frac(3, 2), Num(-50, -3, 10)>>
           /\ kQuadVertices[4].position = <<Num(-10, -3, 5), Frac(-3, 2), Num(-50, 3, 10)>>
           /\ kQuadVertices[1].uv = float2(0, 0)
           /\ kQuadVertices[2].uv = float2(1, 0)
           /\ kQuadVertices[3].uv = float2(0, 1)
           /\ kQuadVertices[4].uv = float2(1, 1)
           /\ dot(U, V) = F(0)
           /\ dot(U, quadNormal) = F(0)
           /\ dot(V, quadNormal) = F(0)
           /\ Len(kQuadIndices) = 6
           /\ Cardinality(T1) = 3
           /\ Cardinality(T2) = 3
           /\ T1 \cup T2 = 0..3
           /\ T1 \cap T2 = {1, 2}

\* C9 witness: frames have run after setup and the first vertex is still
\* center - U - V, away from the center.
C9_Witness ==
    /\ pc = "loop"
    /\ frame = 2
    /\ kQuadVertices[1].position = vsub(vsub(quadCenter, quadExtents[1]), quadExtents[2])
    /\ kQuadVertices[1].position # quadCenter

\* C10: once a frame has updated the reflected camera its projection has the
\* aspect ratio of the offscreen target (width/height of the texture and of
\* the viewport), near 0.1 and far 100; while the frame is in progress its
\* focal length is the application's current focal length.
C10_ReflectedProjection ==
    /\ frame >= 1 =>
          /\ offscreenCam.aspect = fdiv(F(kTextureWidth), F(kTextureHeight))
          /\ offscreenCam.aspect = fdiv(F(viewState.viewport[3]), F(viewState.viewport[4]))
          /\ offscreenCam.near = Frac(1, 10)
          /\ offscreenCam.far = F(100)
    /\ pc \in {"animated", "preRendered", "offscreenRendered"} =>
          offscreenCam.focalLength = cameraFocalLength

\* C10 witness: the focal length was changed after the first frame and the
\* second frame's projection has the new one.
C10_Witness ==
    /\ pc = "animated"
    /\ frame = 2
    /\ cameraFocalLength = F(50)
    /\ offscreenCam.focalLength = F(50)
    /\ offscreenCam.aspect = F(1)

=============================================================================
